---- MODULE Spec2Model ----
(***************************************************************************)
(* Model of the PDScan scan orchestration (OracleAdapterAsync, the scan    *)
(* entrypoint of pdscan/internal/main.py) and of the rule match aggregator *)
(* (MatchFinder).                                                          *)
(*                                                                         *)
(* Spec        one scan through main.scan: connect with retry, unit        *)
(*             enumeration, one task per unit behind the semaphore, error  *)
(*             handling, progress and metrics, disconnect.                 *)
(* SpecRescan  the same adapter scanned a second time after the first scan *)
(*             returned.                                                   *)
(* SpecMF      MatchFinder._add_match applied to a stream of hits.         *)
(* SpecBatch   the batch loop of one unit with the adaptive batch size.    *)
(* SpecEval    the evaluation of values: early rejection, the value cache, *)
(*             the pattern loop.                                           *)
(* SpecProc    the processing of a batch of rows, cell by cell.            *)
(* SpecColumns the column selection of a unit and its fetch query.         *)
(* SpecRules   MatchFinder.add_custom_pattern and MatchFinder.check_line.  *)
(* SpecPool    the tasks of all units running concurrently over the        *)
(*             session pool and the executor of the backend calls.         *)
(***************************************************************************)
EXTENDS Integers, Sequences, FiniteSets, TLC

VARIABLES
    \* ---- inputs of the run (fixed by Init) ----
    scheme,            \* URL scheme handed to main.scan
    retry_attempts,    \* config 'retry_attempts'
    pattern_valid,     \* whether every active pattern, the ad-hoc one included, is a valid regex
    \* ---- OracleAdapterAsync.scan ----
    scanPc,            \* position of the scan coroutine
    outcome,           \* what the caller of scan has seen: none, returned, ScanError, SystemExit
    scans,             \* number of scan() invocations on this adapter so far
    attempt,           \* connect(): attempt counter (kept after a raise, dropped on return)
    connect_result,    \* how the connect() of the current scan ended
    scanErr,           \* the exception caught by scan()'s handler, "none" if none
    pool,              \* self._pool is not None
    open_pools,        \* session pools created and not closed
    retry_delay,       \* self._retry_delay
    tables,            \* units enumerated by fetch_tables
    scan_progress,     \* self._scan_progress
    metrics,           \* self._metrics: tables_completed, tables_skipped, connection_errors
    matches,           \* the list scan() returns: match records per unit
    semaphore,         \* value of self._semaphore
    \* ---- one task per unit (_scan_table_with_progress) ----
    upc,               \* position of the unit's task
    batch,             \* batch_count of the current _scan_table_streaming call
    retries,           \* recursive _scan_table_streaming calls made for the unit
    overran,           \* the unit has been running for more than table_timeout
    umatches,          \* length of the task's list of match events
    uevents,           \* probe: batch -> the match events of the first unit's task that came from it
    raised,            \* the exception raised inside the unit's try block, not yet handled
    \* ---- MatchFinder ----
    mf_matches,        \* self.matches: key -> RuleMatch
    mf_calls,          \* number of _add_match calls so far
    \* ---- the batch loop of _scan_table_streaming (sizes in rows, times in ms) ----
    fetch_size,        \* config 'fetch_size'
    min_batch_size,    \* config 'min_batch_size'
    max_batch_size,    \* config 'max_batch_size'
    adaptive_batch,    \* config 'adaptive_batch'
    bpc,               \* position of the loop: idle, loop, done
    current_batch_size, \* local current_batch_size
    batch_count,       \* local batch_count
    fetched_with,      \* the size handed to the last fetchmany, 0 before the first
    batch_time_seen,   \* batch_time of the last processed batch, milliseconds
    \* ---- the evaluation of values ----
    pattern_optimization, \* config 'pattern_optimization'
    early_termination, \* config 'early_termination'
    value_caching,     \* config 'value_caching'
    cfg_show_all,      \* config 'show_all'
    batch_optimization, \* config 'batch_optimization'
    column_optimization, \* config 'column_optimization'
    total_matches_found, \* self._metrics['total_matches_found']
    value_cache,       \* self._value_cache: hash -> match list
    ev_calls,          \* number of evaluation calls so far
    ev_last,           \* probe: the last call, what it was given and what it did
    first_result,      \* probe: value -> the list its first lookup returned
    compiled_patterns, \* the pattern list of the scan whose batches are processed
    options_show_all,  \* options.show_all of that scan
    \* ---- column selection of _scan_table_streaming ----
    sel_last,          \* probe: the last column selection, its inputs, its result, the fetch query
    \* ---- MatchFinder rules ----
    custom_patterns,   \* self.custom_patterns: name -> regex text
    rule_calls,        \* number of add_custom_pattern and check_line calls so far
    rule_last,         \* probe: the last add_custom_pattern or check_line call
    \* ---- the session pool and the executor under concurrent units ----
    getmode,           \* what acquire does on an exhausted pool: NOWAIT raises, WAIT blocks
    pool_max,          \* config 'pool_max'
    pool_busy,         \* connections of the pool that are acquired
    ppc,               \* position of each unit's task
    pconn,             \* connections each unit holds
    equeue,            \* executor: units whose call waits for a thread, oldest first
    erunning,          \* executor: units whose call runs on a thread
    pbatch,            \* batch_count of each unit's current try
    ptries,            \* retries each unit has made
    total_rows_processed, \* self._metrics['total_rows_processed']
    fetched_rows       \* probe: the sum of the sizes of the batches the units fetched

vars == << scheme, retry_attempts, pattern_valid, scanPc, outcome, scans, attempt,
           connect_result, scanErr, pool, open_pools, retry_delay, tables, scan_progress,
           metrics, matches, semaphore, upc, batch, retries, overran, umatches, uevents,
           raised, mf_matches, mf_calls,
           fetch_size, min_batch_size, max_batch_size, adaptive_batch, bpc,
           current_batch_size, batch_count, fetched_with, batch_time_seen,
           pattern_optimization, early_termination, value_caching, cfg_show_all,
           batch_optimization, column_optimization, total_matches_found,
           value_cache, ev_calls, ev_last, first_result,
           compiled_patterns, options_show_all,
           sel_last, custom_patterns, rule_calls, rule_last,
           getmode, pool_max, pool_busy, ppc, pconn, equeue, erunning, pbatch, ptries,
           total_rows_processed, fetched_rows >>

runVars  == << scheme, retry_attempts, pattern_valid, scanPc, outcome, scans, attempt,
               connect_result, scanErr, pool, open_pools, retry_delay, tables, scan_progress,
               metrics, matches, semaphore >>
unitVars == << upc, batch, retries, overran, umatches, uevents, raised >>
mfVars   == << mf_matches, mf_calls >>
batchVars == << fetch_size, min_batch_size, max_batch_size, adaptive_batch, bpc,
                current_batch_size, batch_count, fetched_with, batch_time_seen >>
evalVars == << pattern_optimization, early_termination, value_caching, cfg_show_all,
               batch_optimization, column_optimization, total_matches_found,
               value_cache, ev_calls, ev_last, first_result,
               compiled_patterns, options_show_all >>
colVars  == << sel_last >>
ruleVars == << custom_patterns, rule_calls, rule_last >>
poolVars == << getmode, pool_max, pool_busy, ppc, pconn, equeue, erunning, pbatch, ptries,
               total_rows_processed, fetched_rows >>
\* the state of the parts modelled on their own
pureVars == << batchVars, evalVars, colVars, ruleVars, poolVars >>

(***************************************************************************)
(* Bounds of the model.                                                    *)
(***************************************************************************)
NumUnits == 2              \* at most this many units are enumerated
MaxRetryAttempts == 2      \* retry_attempts is drawn from 0..MaxRetryAttempts
MaxUnitRetries == 2        \* the backend raises a retryable error at most this often per unit
MaxBatches == 1            \* a unit has at most this many non-empty batches
MaxMatches == 2            \* the rows of a unit yield match events until its list is this long
MaxCalls == 3              \* _add_match is called at most this often
MaxFetches == 10           \* the batch loop fetches at most this many non-empty batches
MaxEvalCalls == 2          \* _optimized_pattern_matching is called at most this often
MaxBatchCalls == 1         \* _optimized_batch_processing is called at most this often
MaxPoolRetries == 1         \* retryable errors raised by fetches under concurrent units
MaxRuleCalls == 3          \* add_custom_pattern and check_line are called at most this often

Units == 1..NumUnits

(***************************************************************************)
(* Configuration: get_adapter maps options.processes (default 1) to        *)
(* max_concurrent_tables; retry_delay defaults to 1.                       *)
(***************************************************************************)
max_concurrent_tables == 1
RetryDelayDefault == 1

(***************************************************************************)
(* Errors.  An error is identified by the code its message contains; the   *)
(* code classifies by substring tests on the message.                      *)
(***************************************************************************)
OracleErrors == { "ORA-01017", "ORA-12514", "ORA-03114",
                  "ORA-00942", "ORA-03113", "ORA-00904" }

CriticalCodes == { "ORA-01017", "ORA-12514", "TNS-12541", "ORA-12547", "ORA-12170" }

RetryableErrors == { "ORA-12541", "ORA-12547", "ORA-12170", "ORA-12514", "ORA-12505",
                     "ORA-03113", "ORA-03114", "ORA-00028", "ORA-00068" }

SkipCodes == { "ORA-00942", "ORA-01031", "ORA-03113" }

IsCritical(e) == e \in CriticalCodes
_should_retry(e) == e \in RetryableErrors
IsSkipCode(e) == e \in SkipCodes

(***************************************************************************)
(* Initial state: the adapter after __init__, scan not yet called.         *)
(***************************************************************************)
NoUnitState ==
    /\ upc = [u \in Units |-> "idle"]
    /\ batch = [u \in Units |-> 0]
    /\ retries = [u \in Units |-> 0]
    /\ overran = [u \in Units |-> FALSE]
    /\ umatches = [u \in Units |-> 0]
    /\ uevents = [b \in 1..MaxBatches |-> 0]
    /\ raised = [u \in Units |-> "none"]

MFInit ==
    /\ mf_matches = << >>
    /\ mf_calls = 0

BatchInit ==
    /\ fetch_size = 10
    /\ min_batch_size = 4
    /\ max_batch_size = 12
    /\ adaptive_batch = TRUE
    /\ bpc = "idle"
    /\ current_batch_size = 0
    /\ batch_count = 0
    /\ fetched_with = 0
    /\ batch_time_seen = 0

NoCall == [op |-> "none", value |-> << >>, result |-> << >>, evals |-> 0,
           counted |-> "none", column_skips |-> 0,
           pats |-> << >>, show_all |-> FALSE, rows |-> << >>, events |-> << >>,
           evaluated |-> << >>]

EvalStateInit ==
    /\ value_cache = << >>
    /\ total_matches_found = 0
    /\ ev_calls = 0
    /\ ev_last = NoCall
    /\ first_result = << >>

EvalInit ==
    /\ pattern_optimization = TRUE
    /\ early_termination = TRUE
    /\ value_caching = TRUE
    /\ cfg_show_all = FALSE
    /\ batch_optimization = TRUE
    /\ column_optimization = TRUE
    /\ compiled_patterns = << >>
    /\ options_show_all = FALSE
    /\ EvalStateInit

NoSelection == [op |-> "none", table |-> << >>, pattern |-> "", only_patterns |-> << >>,
                cols |-> << >>, fetched |-> << >>]

ColInit ==
    /\ sel_last = NoSelection

NoRuleCall == [op |-> "none", name |-> << >>, pattern |-> << >>, outcome |-> "none",
               line |-> << >>, reported |-> {}]

RuleInit ==
    /\ custom_patterns = << >>
    /\ rule_calls = 0
    /\ rule_last = NoRuleCall

PoolInit ==
    /\ getmode = "NOWAIT"
    /\ pool_max = 20
    /\ pool_busy = 0
    /\ ppc = [u \in Units |-> "pending"]
    /\ pconn = [u \in Units |-> 0]
    /\ equeue = << >>
    /\ erunning = {}
    /\ pbatch = [u \in Units |-> 0]
    /\ ptries = [u \in Units |-> 0]
    /\ total_rows_processed = 0
    /\ fetched_rows = 0

PureInit ==
    /\ BatchInit
    /\ EvalInit
    /\ ColInit
    /\ RuleInit
    /\ PoolInit

AdapterInit ==
    /\ scanPc = "idle"
    /\ outcome = "none"
    /\ scans = 0
    /\ attempt = 0
    /\ connect_result = "none"
    /\ scanErr = "none"
    /\ pool = FALSE
    /\ open_pools = 0
    /\ retry_delay = RetryDelayDefault
    /\ tables = {}
    /\ scan_progress = [completed |-> 0, total |-> 0]
    /\ metrics = [tables_completed |-> 0, tables_skipped |-> 0, connection_errors |-> 0]
    /\ matches = [u \in Units |-> 0]
    /\ semaphore = max_concurrent_tables
    /\ NoUnitState

Init ==
    /\ scheme \in {"oracle", "invalid"}
    /\ retry_attempts \in 0..MaxRetryAttempts
    /\ pattern_valid \in BOOLEAN
    /\ AdapterInit
    /\ MFInit
    /\ PureInit

(***************************************************************************)
(* main.scan / get_adapter: an unsupported scheme raises ScanError, which  *)
(* main.scan re-raises as ScanError; an oracle URL runs the adapter's scan.*)
(***************************************************************************)
SupportedSchemes == {"oracle"}

CallScan ==
    /\ scanPc = "idle"
    /\ IF scheme \in SupportedSchemes
          THEN /\ scanPc' = "connect"
               /\ scans' = 1
               /\ outcome' = "none"
          ELSE /\ scanPc' = "done"
               /\ scans' = scans
               /\ outcome' = "ScanError"
    /\ UNCHANGED << scheme, retry_attempts, pattern_valid, attempt, connect_result,
                    scanErr, pool, open_pools, retry_delay, tables, scan_progress,
                    metrics, matches, semaphore >>
    /\ UNCHANGED unitVars
    /\ UNCHANGED mfVars
    /\ UNCHANGED pureVars

(***************************************************************************)
(* scan() called a second time on the same adapter, after the first scan   *)
(* returned.                                                               *)
(***************************************************************************)
Rescan ==
    /\ scanPc = "done"
    /\ outcome = "returned"
    /\ scans = 1
    /\ scanPc' = "connect"
    /\ scans' = scans + 1
    /\ outcome' = "none"
    /\ attempt' = 0
    /\ connect_result' = "none"
    /\ scanErr' = "none"
    /\ tables' = {}
    /\ matches' = [u \in Units |-> 0]
    /\ upc' = [u \in Units |-> "idle"]
    /\ batch' = [u \in Units |-> 0]
    /\ retries' = [u \in Units |-> 0]
    /\ overran' = [u \in Units |-> FALSE]
    /\ umatches' = [u \in Units |-> 0]
    /\ uevents' = [b \in 1..MaxBatches |-> 0]
    /\ raised' = [u \in Units |-> "none"]
    /\ UNCHANGED << scheme, retry_attempts, pattern_valid, pool, open_pools,
                    retry_delay, scan_progress, metrics, semaphore >>
    /\ UNCHANGED mfVars
    /\ UNCHANGED pureVars

(***************************************************************************)
(* connect(): while attempt < retry_attempts, create the pool and run the  *)
(* test query; a cx_Oracle.Error counts an attempt, is re-raised when the  *)
(* budget is used up, and otherwise doubles the delay after a sleep.       *)
(***************************************************************************)
ConnectLoopGuard(a, R) == a < R
ConnectGivesUp(a, R) == a >= R

ConnectAttempt ==
    /\ scanPc = "connect"
    /\ ConnectLoopGuard(attempt, retry_attempts)
    /\ \E stage \in {"ok", "pool_error", "query_error"}, e \in OracleErrors :
         /\ (stage = "ok") => (e = "ORA-01017")
         /\ IF stage = "ok"
               THEN /\ pool' = TRUE
                    /\ open_pools' = open_pools + 1
                    /\ connect_result' = "returned"
                    /\ scanPc' = "fetch_tables"
                    /\ attempt' = 0
                    /\ UNCHANGED << retry_delay, scanErr >>
               ELSE /\ pool' = (pool \/ stage = "query_error")
                    /\ open_pools' = IF stage = "query_error" THEN open_pools + 1
                                                                ELSE open_pools
                    /\ attempt' = attempt + 1
                    /\ IF ConnectGivesUp(attempt + 1, retry_attempts)
                          THEN /\ connect_result' = "raised"
                               /\ scanErr' = e
                               /\ scanPc' = "disconnect"
                               /\ UNCHANGED retry_delay
                          ELSE /\ retry_delay' = retry_delay * 2
                               /\ UNCHANGED << connect_result, scanErr, scanPc >>
    /\ UNCHANGED << scheme, retry_attempts, pattern_valid, outcome, scans, tables,
                    scan_progress, metrics, matches, semaphore >>
    /\ UNCHANGED unitVars
    /\ UNCHANGED mfVars
    /\ UNCHANGED pureVars

\* the while loop ends without a return or a raise: connect() returns None
ConnectFallsThrough ==
    /\ scanPc = "connect"
    /\ ~ ConnectLoopGuard(attempt, retry_attempts)
    /\ connect_result' = "returned"
    /\ scanPc' = "fetch_tables"
    /\ UNCHANGED << scheme, retry_attempts, pattern_valid, outcome, scans, attempt,
                    scanErr, pool, open_pools, retry_delay, tables, scan_progress,
                    metrics, matches, semaphore >>
    /\ UNCHANGED unitVars
    /\ UNCHANGED mfVars
    /\ UNCHANGED pureVars

(***************************************************************************)
(* fetch_tables and the start of the tasks (scan, lines 253-288).          *)
(***************************************************************************)
\* lines 257-261: scan() replaces the progress record; the variant above
\* ProgressInit carries the old completed count over
ProgressInitKeepsCompleted(n) == [completed |-> scan_progress.completed, total |-> n]
ProgressInit(n) == [completed |-> 0, total |-> n]

FetchTables ==
    /\ scanPc = "fetch_tables"
    /\ IF ~ pool
          THEN \* self._pool is None: _get_connection raises AttributeError
               /\ scanErr' = "AttributeError"
               /\ scanPc' = "disconnect"
               /\ UNCHANGED << tables, scan_progress, upc >>
          ELSE \/ \E n \in 0..NumUnits :
                    /\ tables' = 1..n
                    /\ scan_progress' = ProgressInit(n)
                    /\ upc' = [u \in Units |-> IF u <= n THEN "pending" ELSE "idle"]
                    /\ scanPc' = "gather"
                    /\ UNCHANGED scanErr
               \/ \E e \in OracleErrors :
                    /\ scanErr' = e
                    /\ scanPc' = "disconnect"
                    /\ UNCHANGED << tables, scan_progress, upc >>
    /\ UNCHANGED << scheme, retry_attempts, pattern_valid, outcome, scans, attempt,
                    connect_result, pool, open_pools, retry_delay, metrics, matches,
                    semaphore >>
    /\ UNCHANGED << batch, retries, overran, umatches, uevents, raised >>
    /\ UNCHANGED mfVars
    /\ UNCHANGED pureVars

(***************************************************************************)
(* One task per unit: _scan_table_with_progress around the generator       *)
(* _scan_table_streaming.  The task's local state (batch_count, the caught *)
(* exception, its list of matches) is kept while the task runs; when it    *)
(* ends only the list it returned remains.                                 *)
(***************************************************************************)
InFlight == { "column_selection", "streaming", "handling", "retry_sleep" }
Terminal == { "completed", "skipped" }

\* async with self._semaphore: the task is admitted while the value is
\* positive; the variant above SemaphoreCanAcquire admits whatever the value
SemaphoreAlwaysAdmits(s) == TRUE
SemaphoreCanAcquire(s) == s > 0

\* lines 333-344: the generator ended normally
CompletedProgress(p) == [p EXCEPT !.completed = @ + 1]
CompletedMetrics(m) == [m EXCEPT !.tables_completed = @ + 1]

\* lines 346-351: an exception left the generator; the variant above
\* SkippedMetrics leaves tables_skipped as it is
SkippedProgress(p) == p
SkippedMetricsWithoutSkip(m) == [m EXCEPT !.connection_errors = @ + 1]
SkippedMetrics(m) == [m EXCEPT !.connection_errors = @ + 1, !.tables_skipped = @ + 1]

\* the generator of unit u ends normally with metrics m: the task counts the
\* unit as completed, returns its list and leaves the semaphore
UnitCompletes(u, m) ==
    /\ scan_progress' = CompletedProgress(scan_progress)
    /\ metrics' = CompletedMetrics(m)
    /\ upc' = [upc EXCEPT ![u] = "completed"]
    /\ semaphore' = semaphore + 1
    /\ batch' = [batch EXCEPT ![u] = 0]
    /\ retries' = [retries EXCEPT ![u] = 0]
    /\ overran' = [overran EXCEPT ![u] = FALSE]
    /\ raised' = [raised EXCEPT ![u] = "none"]
    /\ UNCHANGED << umatches, uevents >>

\* a backend call of unit u raises e inside the try block of _scan_table_streaming
Raises(u, e) ==
    /\ raised' = [raised EXCEPT ![u] = e]
    /\ upc' = [upc EXCEPT ![u] = "handling"]
    /\ batch' = [batch EXCEPT ![u] = 0]
    /\ UNCHANGED << scan_progress, metrics, semaphore, retries, overran, umatches, uevents >>

\* the backend raises a retryable error at most MaxUnitRetries times per unit
MayRaise(u, e) == (_should_retry(e) /\ ~ IsSkipCode(e)) => retries[u] < MaxUnitRetries

\* the semaphore admits the task; _compile_patterns runs before the first
\* suspension point and raises re.error for an invalid pattern, which leaves
\* the generator and is caught by _scan_table_with_progress
Admit(u) ==
    /\ scanPc = "gather"
    /\ upc[u] = "pending"
    /\ SemaphoreCanAcquire(semaphore)
    /\ IF pattern_valid
          THEN /\ semaphore' = semaphore - 1
               /\ upc' = [upc EXCEPT ![u] = "column_selection"]
               /\ UNCHANGED << scan_progress, metrics >>
          ELSE /\ scan_progress' = SkippedProgress(scan_progress)
               /\ metrics' = SkippedMetrics(metrics)
               /\ upc' = [upc EXCEPT ![u] = "skipped"]
               /\ UNCHANGED semaphore
    /\ UNCHANGED << scheme, retry_attempts, pattern_valid, scanPc, outcome, scans,
                    attempt, connect_result, scanErr, pool, open_pools, retry_delay,
                    tables, matches >>
    /\ UNCHANGED << batch, retries, overran, umatches, uevents, raised >>
    /\ UNCHANGED mfVars
    /\ UNCHANGED pureVars

\* _get_valid_columns: some columns, no column (the generator returns), or an error
ColumnSelection(u) ==
    /\ upc[u] = "column_selection"
    /\ \/ /\ upc' = [upc EXCEPT ![u] = "streaming"]
          /\ batch' = [batch EXCEPT ![u] = 0]
          /\ UNCHANGED << scan_progress, metrics, semaphore, retries, overran,
                          umatches, uevents, raised >>
       \/ UnitCompletes(u, metrics)
       \/ \E e \in OracleErrors : MayRaise(u, e) /\ Raises(u, e)
    /\ UNCHANGED << scheme, retry_attempts, pattern_valid, scanPc, outcome, scans,
                    attempt, connect_result, scanErr, pool, open_pools, retry_delay,
                    tables, matches >>
    /\ UNCHANGED mfVars
    /\ UNCHANGED pureVars

\* one fetchmany of the batch loop: a batch, whose rows yield a match event or
\* none, the end of the rows, or an error
FetchBatch(u) ==
    /\ upc[u] = "streaming"
    /\ \/ /\ batch[u] < MaxBatches
          /\ batch' = [batch EXCEPT ![u] = @ + 1]
          /\ \E k \in {0, 1} :
               /\ (k = 1) => (umatches[u] < MaxMatches)
               /\ umatches' = [umatches EXCEPT ![u] = @ + k]
               /\ uevents' = IF u = 1 THEN [uevents EXCEPT ![batch[u] + 1] = @ + k]
                                     ELSE uevents
          /\ UNCHANGED << scan_progress, metrics, semaphore, upc, retries, overran,
                          raised >>
       \/ UnitCompletes(u, metrics)
       \/ \E e \in OracleErrors : MayRaise(u, e) /\ Raises(u, e)
    /\ UNCHANGED << scheme, retry_attempts, pattern_valid, scanPc, outcome, scans,
                    attempt, connect_result, scanErr, pool, open_pools, retry_delay,
                    tables, matches >>
    /\ UNCHANGED mfVars
    /\ UNCHANGED pureVars

\* lines 755-773, the handler of _scan_table_streaming: a skip code or an error
\* that is not retryable is counted and the generator ends; a retryable error
\* sleeps self._retry_delay and calls _scan_table_streaming again
HandleError(u) ==
    /\ upc[u] = "handling"
    /\ IF IsSkipCode(raised[u])
          THEN UnitCompletes(u, [metrics EXCEPT !.connection_errors = @ + 1])
          ELSE IF _should_retry(raised[u])
          THEN /\ retries' = [retries EXCEPT ![u] = @ + 1]
               /\ upc' = [upc EXCEPT ![u] = "retry_sleep"]
               /\ raised' = [raised EXCEPT ![u] = "none"]
               /\ UNCHANGED << scan_progress, metrics, semaphore, batch, overran,
                               umatches, uevents >>
          ELSE UnitCompletes(u, [metrics EXCEPT !.connection_errors = @ + 1])
    /\ UNCHANGED << scheme, retry_attempts, pattern_valid, scanPc, outcome, scans,
                    attempt, connect_result, scanErr, pool, open_pools, retry_delay,
                    tables, matches >>
    /\ UNCHANGED mfVars
    /\ UNCHANGED pureVars

\* the sleep before the retry ends: the recursive _scan_table_streaming call
\* starts again at column selection
RetryWakes(u) ==
    /\ upc[u] = "retry_sleep"
    /\ upc' = [upc EXCEPT ![u] = "column_selection"]
    /\ batch' = [batch EXCEPT ![u] = 0]
    /\ UNCHANGED runVars
    /\ UNCHANGED << retries, overran, umatches, uevents, raised >>
    /\ UNCHANGED mfVars
    /\ UNCHANGED pureVars

\* table_timeout seconds have passed since the unit's scan began; nothing in
\* _scan_table_with_progress waits on the clock
TimeoutElapses(u) ==
    /\ upc[u] \in InFlight
    /\ ~ overran[u]
    /\ overran' = [overran EXCEPT ![u] = TRUE]
    /\ UNCHANGED runVars
    /\ UNCHANGED << upc, batch, retries, umatches, uevents, raised >>
    /\ UNCHANGED mfVars
    /\ UNCHANGED pureVars

(***************************************************************************)
(* scan(), lines 291-322: gather, collect, the handler, disconnect.        *)
(***************************************************************************)
\* the list the task of unit u returned
TaskResult(u) == IF upc[u] = "completed" THEN umatches[u] ELSE 0

Collect ==
    /\ scanPc = "gather"
    /\ \A u \in tables : upc[u] \in Terminal
    /\ matches' = [u \in Units |-> IF u \in tables THEN TaskResult(u) ELSE 0]
    /\ scanPc' = "disconnect"
    /\ UNCHANGED << scheme, retry_attempts, pattern_valid, outcome, scans, attempt,
                    connect_result, scanErr, pool, open_pools, retry_delay, tables,
                    scan_progress, metrics, semaphore >>
    /\ UNCHANGED unitVars
    /\ UNCHANGED mfVars
    /\ UNCHANGED pureVars

\* the handler's verdict on the caught exception, carried out after the finally
ScanOutcome(e) == IF e # "none" /\ IsCritical(e) THEN "SystemExit" ELSE "returned"

Disconnect ==
    /\ scanPc = "disconnect"
    /\ pool' = FALSE
    /\ open_pools' = IF pool THEN open_pools - 1 ELSE open_pools
    /\ outcome' = ScanOutcome(scanErr)
    /\ scanPc' = "done"
    /\ UNCHANGED << scheme, retry_attempts, pattern_valid, scans, attempt,
                    connect_result, scanErr, retry_delay, tables, scan_progress,
                    metrics, matches, semaphore >>
    /\ UNCHANGED unitVars
    /\ UNCHANGED mfVars
    /\ UNCHANGED pureVars

Next ==
    \/ CallScan
    \/ ConnectAttempt
    \/ ConnectFallsThrough
    \/ FetchTables
    \/ \E u \in Units : Admit(u)
    \/ \E u \in Units : ColumnSelection(u)
    \/ \E u \in Units : FetchBatch(u)
    \/ \E u \in Units : HandleError(u)
    \/ \E u \in Units : RetryWakes(u)
    \/ \E u \in Units : TimeoutElapses(u)
    \/ Collect
    \/ Disconnect

Spec == Init /\ [][Next]_vars

(***************************************************************************)
(* The adapter scanned twice: the application keeps the adapter and calls  *)
(* scan() again after the first scan returned.                             *)
(***************************************************************************)
RescanRetryAttempts == {0, 1}

InitRescan ==
    /\ scheme = "oracle"
    /\ retry_attempts \in RescanRetryAttempts
    /\ pattern_valid \in BOOLEAN
    /\ AdapterInit
    /\ MFInit
    /\ PureInit

NextRescan ==
    \/ Next
    \/ Rescan

SpecRescan == InitRescan /\ [][NextRescan]_vars

(***************************************************************************)
(* MatchFinder.  Strings are sequences of characters; a rule hit is a      *)
(* rule name, a location and the matched value.                            *)
(***************************************************************************)
IsSpace(c) == c \in {" ", "\t"}

UpperCase == << "A", "B", "C", "D", "E", "F", "G", "H", "I", "J", "K", "L", "M",
               "N", "O", "P", "Q", "R", "S", "T", "U", "V", "W", "X", "Y", "Z" >>
LowerCase == << "a", "b", "c", "d", "e", "f", "g", "h", "i", "j", "k", "l", "m",
               "n", "o", "p", "q", "r", "s", "t", "u", "v", "w", "x", "y", "z" >>

ToLower == [c \in { UpperCase[i] : i \in 1..Len(UpperCase) } |->
              LowerCase[CHOOSE i \in 1..Len(UpperCase) : UpperCase[i] = c]]

Lower(c) == IF c \in DOMAIN ToLower THEN ToLower[c] ELSE c

LowerAll(s) == [i \in 1..Len(s) |-> Lower(s[i])]

RECURSIVE LStrip(_)
LStrip(s) == IF s = << >> THEN s
             ELSE IF IsSpace(Head(s)) THEN LStrip(Tail(s)) ELSE s

RECURSIVE RStrip(_)
RStrip(s) == IF s = << >> THEN s
             ELSE IF IsSpace(s[Len(s)]) THEN RStrip(SubSeq(s, 1, Len(s) - 1)) ELSE s

\* value.strip()
Strip(s) == RStrip(LStrip(s))

\* re.sub(r'\s+', ' ', s): every maximal run of whitespace becomes one space
RECURSIVE CollapseWhitespace(_)
CollapseWhitespace(s) ==
    IF s = << >> THEN s
    ELSE IF IsSpace(Head(s)) THEN << " " >> \o CollapseWhitespace(LStrip(Tail(s)))
    ELSE << Head(s) >> \o CollapseWhitespace(Tail(s))

\* _normalize_value: strip, collapse whitespace, lower; the variant above it
\* leaves out the lower()
NormalizeKeepsCase(value) == CollapseWhitespace(Strip(value))
_normalize_value(value) == LowerAll(CollapseWhitespace(Strip(value)))

\* f"{rule['name']}:{location}"
MatchKey(name, location) == name \o << ":" >> \o location

RuleNames == { << "r" >>, << "r", ":", "t" >> }
Locations == { << "c" >>, << "t", ":", "c" >> }
SampleValues == { << "a" >>, << "A" >>, << " ", "a" >>, << "a", "\t" >>,
                  << "a", " ", "b" >>, << "A", " ", "\t", "B" >>, << "a", "b" >> }

\* _add_match
_add_match(m, name, value, location) ==
    LET key == MatchKey(name, location)
        m1 == IF key \in DOMAIN m
                 THEN m
                 ELSE [k \in DOMAIN m \cup {key} |->
                         IF k = key THEN [name |-> name, location |-> location,
                                          values |-> << >>]
                                    ELSE m[k]]
        normalized_value == _normalize_value(value)
        seen == { _normalize_value(m1[key].values[i]) : i \in 1..Len(m1[key].values) }
    IN  IF normalized_value \notin seen
           THEN [m1 EXCEPT ![key].values = Append(@, value)]
           ELSE m1

\* check_line found a hit and calls _add_match
AddMatch ==
    /\ mf_calls < MaxCalls
    /\ \E name \in RuleNames, location \in Locations, value \in SampleValues :
         mf_matches' = _add_match(mf_matches, name, value, location)
    /\ mf_calls' = mf_calls + 1
    /\ UNCHANGED runVars
    /\ UNCHANGED unitVars
    /\ UNCHANGED pureVars

InitMF ==
    /\ scheme = "oracle"
    /\ retry_attempts = 0
    /\ pattern_valid = TRUE
    /\ AdapterInit
    /\ MFInit
    /\ PureInit

NextMF == AddMatch

SpecMF == InitMF /\ [][NextMF]_vars

(***************************************************************************)
(* MatchFinder rules: add_custom_pattern, validate_pattern, check_line and *)
(* _token_match.                                                           *)
(***************************************************************************)
\* the lines handed to check_line
L_monkey == << "m", "o", "n", "k", "e", "y" >>
L_key == << "k", "e", "y" >>
L_my_key == << "m", "y", " ", "k", "e", "y" >>
L_monKEY == << "m", "o", "n", "K", "E", "Y" >>
L_jdbc == << "j", "d", "b", "c", ":", "x" >>
L_home == << "/", "h", "o", "m", "e", "/", "u" >>
L_zzz == << "z", "z", "z" >>
SampleLines == { L_monkey, L_key, L_my_key, L_monKEY, L_jdbc, L_home, L_zzz }

\* the location handed to check_line
SampleLocation == << "t", ".", "c" >>

\* rules.py token_rules: name and tokens of each rule
token_rules == <<
    [name |-> << "a", "p", "i", "-", "k", "e", "y" >>,
     tokens |-> << << "a", "p", "i" >>,
                   << "k", "e", "y" >>,
                   << "s", "e", "c", "r", "e", "t" >>,
                   << "t", "o", "k", "e", "n" >>,
                   << "a", "u", "t", "h" >>,
                   << "p", "a", "s", "s", "w", "o", "r", "d" >>,
                   << "p", "w", "d" >> >>],
    [name |-> << "d", "a", "t", "a", "b", "a", "s", "e", "-", "c", "o", "n", "n", "e", "c", "t", "i", "o", "n" >>,
     tokens |-> << << "j", "d", "b", "c", ":" >>,
                   << "m", "y", "s", "q", "l", ":", "/", "/" >>,
                   << "p", "o", "s", "t", "g", "r", "e", "s", "q", "l", ":", "/", "/" >>,
                   << "m", "o", "n", "g", "o", "d", "b", ":", "/", "/" >>,
                   << "r", "e", "d", "i", "s", ":", "/", "/" >>,
                   << "o", "r", "a", "c", "l", "e", ":", "/", "/" >> >>],
    [name |-> << "f", "i", "l", "e", "-", "p", "a", "t", "h" >>,
     tokens |-> << << "/", "h", "o", "m", "e", "/" >>,
                   << "/", "v", "a", "r", "/" >>,
                   << "C", ":", "\\" >>,
                   << "D", ":", "\\" >>,
                   << "/", "t", "m", "p", "/" >>,
                   << "/", "u", "s", "r", "/" >> >>] >>

\* the tokens _token_match validates by family
ConnectionTokens == { << "j", "d", "b", "c", ":" >>, << "m", "y", "s", "q", "l", ":", "/", "/" >>, << "p", "o", "s", "t", "g", "r", "e", "s", "q", "l", ":", "/", "/" >>, << "m", "o", "n", "g", "o", "d", "b", ":", "/", "/" >>, << "r", "e", "d", "i", "s", ":", "/", "/" >>, << "o", "r", "a", "c", "l", "e", ":", "/", "/" >> }
PathTokens == { << "/", "h", "o", "m", "e", "/" >>, << "/", "v", "a", "r", "/" >>, << "c", ":", "\\" >>, << "d", ":", "\\" >>, << "/", "t", "m", "p", "/" >>, << "/", "u", "s", "r", "/" >> }

\* the hits of name_rules and multi_name_rules (compiled with IGNORECASE) in
\* the sample lines, in the order of the loops of check_line: rule name and
\* match.group()
BuiltinHits(line) ==
    CASE line = L_my_key -> << [name |-> << "p", "e", "r", "s", "o", "n", "-", "n", "a", "m", "e" >>, value |-> << "m", "y", " ", "k", "e", "y" >>], [name |-> << "p", "e", "r", "s", "o", "n", "-", "n", "a", "m", "e" >>, value |-> << "m", "y", " ", "k", "e", "y" >>] >>
      [] OTHER -> << >>

\* sub in s, for a sub that is not empty
Contains(sub, s) ==
    \E i \in 1..(Len(s) - Len(sub) + 1) : SubSeq(s, i, i + Len(sub) - 1) = sub

\* _token_match
_token_match(line, token) ==
    LET line_lower == LowerAll(line)
        token_lower == LowerAll(token)
    IN  IF Contains(<< " " >> \o token_lower \o << " " >>, << " " >> \o line_lower \o << " " >>)
           THEN TRUE
        ELSE IF Contains(token_lower, line_lower)
           THEN IF token_lower \in ConnectionTokens
                   THEN Contains(<< ":", "/", "/" >>, line_lower)
                          \/ Contains(<< "j", "d", "b", "c", ":" >>, line_lower)
                ELSE IF token_lower \in PathTokens
                   THEN Contains(<< "/" >>, line_lower) \/ Contains(<< "\\" >>, line_lower)
                ELSE TRUE
        ELSE FALSE

\* lines 77-82: one hit of the rule, with the whole line as its value, for
\* every token of the rule that _token_match accepts
RECURSIVE TokenHits(_, _, _)
TokenHits(line, r, t) ==
    IF r > Len(token_rules) THEN << >>
    ELSE IF t > Len(token_rules[r].tokens) THEN TokenHits(line, r + 1, 1)
    ELSE (IF _token_match(line, token_rules[r].tokens[t])
             THEN << [name |-> token_rules[r].name, value |-> line] >>
             ELSE << >>)
           \o TokenHits(line, r, t + 1)

\* the regex texts handed to add_custom_pattern and the names they get
P_key == << "k", "e", "y" >>
P_group == << "(", "m", "o", "n", ")" >>
P_open == << "(", "k", "e", "y" >>
P_close == << "k", "e", "y", ")" >>
SamplePatterns == { P_key, P_group, P_open, P_close }
N_c1 == << "c", "1" >>
N_c2 == << "c", "2" >>
CustomNames == << N_c1, N_c2 >>

\* re.compile on a text of letters and parentheses: an error when a ")" has
\* no "(" before it or a "(" is left open
RECURSIVE ParensBalanced(_, _, _)
ParensBalanced(pattern, i, depth) ==
    IF i > Len(pattern) THEN depth = 0
    ELSE IF pattern[i] = "(" THEN ParensBalanced(pattern, i + 1, depth + 1)
    ELSE IF pattern[i] = ")" THEN depth > 0 /\ ParensBalanced(pattern, i + 1, depth - 1)
    ELSE ParensBalanced(pattern, i + 1, depth)

\* MatchConfig.validate_pattern; the variant above it accepts every text
ValidateAccepts(pattern) == TRUE
validate_pattern(pattern) == ParensBalanced(pattern, 1, 0)

\* MatchConfig.add_custom_pattern
add_custom_pattern(customs, name, pattern) ==
    [n \in DOMAIN customs \cup {name} |-> IF n = name THEN pattern ELSE customs[n]]

\* the text a pattern of letters and groups matches
RECURSIVE Literal(_)
Literal(pattern) ==
    IF pattern = << >> THEN << >>
    ELSE (IF Head(pattern) \in { "(", ")" } THEN << >> ELSE << Head(pattern) >>)
           \o Literal(Tail(pattern))

\* regex.finditer(line) with IGNORECASE: the occurrences from left to right
\* that do not overlap, each as match.group()
RECURSIVE FindAll(_, _, _)
FindAll(lit, line, i) ==
    IF lit = << >> \/ i + Len(lit) - 1 > Len(line) THEN << >>
    ELSE IF LowerAll(SubSeq(line, i, i + Len(lit) - 1)) = LowerAll(lit)
            THEN << SubSeq(line, i, i + Len(lit) - 1) >> \o FindAll(lit, line, i + Len(lit))
    ELSE FindAll(lit, line, i + 1)

\* lines 89-92: the hits of the custom patterns
RECURSIVE CustomHits(_, _, _)
CustomHits(line, customs, n) ==
    IF n > Len(CustomNames) THEN << >>
    ELSE (IF CustomNames[n] \in DOMAIN customs
             THEN LET groups == FindAll(Literal(customs[CustomNames[n]]), line, 1)
                  IN  [k \in 1..Len(groups) |-> [name |-> CustomNames[n], value |-> groups[k]]]
             ELSE << >>)
           \o CustomHits(line, customs, n + 1)

\* every _add_match call of one check_line, in order
\* the token hits of each sample line
TokenHitsOf == [line \in SampleLines |-> TokenHits(line, 1, 1)]

LineHits(line, customs) ==
    BuiltinHits(line) \o TokenHitsOf[line] \o CustomHits(line, customs, 1)

RECURSIVE AddAll(_, _, _, _)
AddAll(m, hits, location, i) ==
    IF i > Len(hits) THEN m
    ELSE AddAll(_add_match(m, hits[i].name, hits[i].value, location), hits, location, i + 1)

check_line(m, line, location, customs) ==
    AddAll(m, LineHits(line, customs), location, 1)

\* MatchFinder.add_custom_pattern
AddCustomPattern ==
    /\ rule_calls < MaxRuleCalls
    /\ \E n \in 1..Len(CustomNames), pattern \in SamplePatterns :
         IF validate_pattern(pattern)
            THEN /\ custom_patterns' = add_custom_pattern(custom_patterns, CustomNames[n], pattern)
                 /\ rule_last' = [NoRuleCall EXCEPT !.op = "add_custom_pattern",
                                                    !.name = CustomNames[n],
                                                    !.pattern = pattern,
                                                    !.outcome = "True"]
            ELSE /\ custom_patterns' = custom_patterns
                 /\ rule_last' = [NoRuleCall EXCEPT !.op = "add_custom_pattern",
                                                    !.name = CustomNames[n],
                                                    !.pattern = pattern,
                                                    !.outcome = "ValueError"]
    /\ rule_calls' = rule_calls + 1
    /\ UNCHANGED << sel_last >>
    /\ UNCHANGED << runVars, unitVars, mfVars, batchVars, evalVars, poolVars >>

\* MatchFinder.check_line
CheckLine ==
    /\ rule_calls < MaxRuleCalls
    /\ \E line \in SampleLines :
         LET hits == LineHits(line, custom_patterns)
         IN  /\ mf_matches' = check_line(mf_matches, line, SampleLocation, custom_patterns)
             /\ mf_calls' = mf_calls + Len(hits)
             /\ rule_last' = [NoRuleCall EXCEPT !.op = "check_line", !.line = line,
                                                !.outcome = "None",
                                                !.reported = { hits[k].name : k \in 1..Len(hits) }]
    /\ rule_calls' = rule_calls + 1
    /\ UNCHANGED << custom_patterns, sel_last >>
    /\ UNCHANGED << runVars, unitVars, batchVars, evalVars, poolVars >>

InitRules ==
    /\ scheme = "oracle"
    /\ retry_attempts = 0
    /\ pattern_valid = TRUE
    /\ AdapterInit
    /\ MFInit
    /\ PureInit

NextRules ==
    \/ AddCustomPattern
    \/ CheckLine

SpecRules == InitRules /\ [][NextRules]_vars

(***************************************************************************)
(* The batch loop of _scan_table_streaming (lines 714-746) and             *)
(* _adjust_batch_size.  Sizes are rows, times are milliseconds; int(x*0.8) *)
(* and int(x*1.2) are (x*8) \div 10 and (x*12) \div 10 on the naturals.     *)
(***************************************************************************)
FetchSizes == {1, 3, 5, 10, 15}
MinBatchSizes == {4, 5}
MaxBatchSizes == {10, 12}
BatchTimes == {0, 100, 400, 500, 600, 900, 100000}

TargetTime == 500

Max(a, b) == IF a >= b THEN a ELSE b
Min(a, b) == IF a <= b THEN a ELSE b

AdjustNever(size, batch_time) == size

_adjust_batch_size(size, batch_time) ==
    IF ~ adaptive_batch THEN size
    ELSE IF batch_time * 2 > TargetTime * 3
            THEN Max(min_batch_size, (size * 8) \div 10)
    ELSE IF batch_time * 2 < TargetTime
            THEN Min(max_batch_size, (size * 12) \div 10)
    ELSE size

\* lines 714-716: the query has been executed, the loop starts
StartBatchLoop ==
    /\ bpc = "idle"
    /\ bpc' = "loop"
    /\ batch_count' = 0
    /\ current_batch_size' = fetch_size
    /\ UNCHANGED << fetch_size, min_batch_size, max_batch_size, adaptive_batch,
                    fetched_with, batch_time_seen >>
    /\ UNCHANGED << runVars, unitVars, mfVars, evalVars, colVars, ruleVars, poolVars >>

\* one turn of the while loop: fetchmany(current_batch_size), then either no
\* rows and the loop ends, or the batch is processed in batch_time and every
\* fifth batch adjusts the size
FetchMany ==
    /\ bpc = "loop"
    /\ fetched_with' = current_batch_size
    /\ \/ /\ bpc' = "done"
          /\ UNCHANGED << batch_count, current_batch_size, batch_time_seen >>
       \/ /\ batch_count < MaxFetches
          /\ batch_count' = batch_count + 1
          /\ \E batch_time \in BatchTimes :
               /\ batch_time_seen' = batch_time
               /\ current_batch_size' =
                    IF adaptive_batch /\ (batch_count + 1) % 5 = 0
                       THEN _adjust_batch_size(current_batch_size, batch_time)
                       ELSE current_batch_size
          /\ UNCHANGED bpc
    /\ UNCHANGED << fetch_size, min_batch_size, max_batch_size, adaptive_batch >>
    /\ UNCHANGED << runVars, unitVars, mfVars, evalVars, colVars, ruleVars, poolVars >>

InitBatch ==
    /\ scheme = "oracle"
    /\ retry_attempts = 0
    /\ pattern_valid = TRUE
    /\ AdapterInit
    /\ MFInit
    /\ fetch_size \in FetchSizes
    /\ min_batch_size \in MinBatchSizes
    /\ max_batch_size \in MaxBatchSizes
    /\ adaptive_batch \in BOOLEAN
    /\ bpc = "idle"
    /\ current_batch_size = 0
    /\ batch_count = 0
    /\ fetched_with = 0
    /\ batch_time_seen = 0
    /\ EvalInit
    /\ ColInit
    /\ RuleInit
    /\ PoolInit

NextBatch ==
    \/ StartBatchLoop
    \/ FetchMany

SpecBatch == InitBatch /\ [][NextBatch]_vars

(***************************************************************************)
(* The evaluation of one value: _early_termination_check, the value cache  *)
(* and the pattern loop of _optimized_pattern_matching.  compiled_patterns *)
(* is the sequence of pattern names in the order of get_patterns; what the *)
(* regular expressions find in the sample values is tabulated from re.     *)
(***************************************************************************)
V_mail == << "a", "b", "c", "@", "b", ".", "c", "o", "m" >>
V_dash == << "a", "b", "c", "d", "-", "e", "f", "g", "h" >>
V_word == << "a", "b", "c", "d", "e", "f", "g" >>
V_card == << "4", "1", "1", "1", "-", "1", "1", "1", "1", "-", "1", "1", "1", "1", "-", "1", "1", "1", "1" >>
V_ssn  == << "1", "2", "3", "-", "4", "5", "-", "6", "7", "8", "9" >>
V_both == << "a", "@", "b", ".", "c", "o", "m", " ", "1", "2", "3", "-", "4", "5", "-", "6", "7", "8", "9" >>

EvalValues == { V_mail, V_dash, V_word, V_card, V_ssn, V_both }

\* the ad-hoc pattern of the samples is 'abc'
PatternLists == { << "email", "ssn", "credit_card", "custom" >>,
                  << "custom", "email" >>,
                  << "ssn" >> }

\* compiled_regex.search(value) of pattern p
RegexHits(value) ==
    CASE value = V_mail -> { "email", "custom" }
      [] value = V_dash -> { "custom" }
      [] value = V_word -> { "custom" }
      [] value = V_card -> { "credit_card" }
      [] value = V_ssn  -> { "ssn" }
      [] value = V_both -> { "email", "ssn" }
      [] OTHER -> { }

RegexSearch(p, value) == p \in RegexHits(value)

DigitChars == { "0", "1", "2", "3", "4", "5", "6", "7", "8", "9" }
HasChar(s, c) == \E i \in 1..Len(s) : s[i] = c
HasDigit(s) == \E i \in 1..Len(s) : s[i] \in DigitChars
IsDigit(s) == Len(s) > 0 /\ \A i \in 1..Len(s) : s[i] \in DigitChars

\* _early_termination_check: TRUE when the value is skipped before any regex
EarlyCheckNever(value) == FALSE
_early_termination_check(value) ==
    IF ~ early_termination THEN FALSE
    ELSE IF \/ HasChar(value, "@") /\ HasChar(value, ".")
            \/ HasChar(value, "-") /\ Len(value) \in {9, 11}
            THEN FALSE
    ELSE IF Len(value) < 10 THEN TRUE
    ELSE IF Len(value) > 1000 THEN TRUE
    ELSE IF IsDigit(value) /\ Len(value) < 13 THEN TRUE
    ELSE IF ~ HasDigit(value) THEN TRUE
    ELSE FALSE

\* _hash_value: the MD5 digest, distinct for distinct sample values
_hash_value(value) == << "md5", value >>

\* _is_value_cached, _get_cached_result, _cache_value_result
IsValueCachedNever(cache, h) == FALSE
_is_value_cached(cache, h) == IF ~ value_caching THEN FALSE ELSE h \in DOMAIN cache

_get_cached_result(cache, h) == cache[h]

_cache_value_result(cache, h, result) ==
    IF ~ value_caching THEN cache
    ELSE [k \in DOMAIN cache \cup {h} |-> IF k = h THEN result ELSE cache[k]]

\* the shape checks in front of the regular expressions (lines 397-411)
ShapeGate(p, value) ==
    CASE p = "credit_card" -> Len(value) >= 13 /\ Len(value) <= 19 /\ HasDigit(value)
      [] p = "email" -> /\ HasChar(value, "@") /\ HasChar(value, ".")
                        /\ Len(value) >= 5 /\ Len(value) <= 254
      [] p = "ssn" -> Len(value) >= 9 /\ Len(value) <= 11 /\ HasDigit(value)
      [] OTHER -> TRUE

MatchRecord(p, value) == [pattern_name |-> p, matched_value |-> value]

\* _batch_match_patterns: every pattern is searched, every hit is kept
RECURSIVE BatchMatchFrom(_, _, _)
BatchMatchFrom(value, pats, i) ==
    IF i > Len(pats) THEN << >>
    ELSE (IF RegexSearch(pats[i], value) THEN << MatchRecord(pats[i], value) >> ELSE << >>)
         \o BatchMatchFrom(value, pats, i + 1)

_batch_match_patterns(value, pats) ==
    [result |-> BatchMatchFrom(value, pats, 1), evals |-> Len(pats)]

\* the pattern loop of _optimized_pattern_matching (lines 395-420): the list
\* of matches and the number of regex searches
RECURSIVE PatternLoop(_, _, _)
PatternLoop(value, pats, i) ==
    IF i > Len(pats) THEN [result |-> << >>, evals |-> 0]
    ELSE IF ~ ShapeGate(pats[i], value) THEN PatternLoop(value, pats, i + 1)
    ELSE IF RegexSearch(pats[i], value) /\ ~ cfg_show_all
            THEN [result |-> << MatchRecord(pats[i], value) >>, evals |-> 1]
    ELSE LET rest == PatternLoop(value, pats, i + 1)
         IN  [result |-> (IF RegexSearch(pats[i], value)
                             THEN << MatchRecord(pats[i], value) >> ELSE << >>)
                         \o rest.result,
              evals |-> rest.evals + 1]

\* _optimized_pattern_matching: the list returned, the regex searches run,
\* the cache afterwards and the counter of self._metrics that was incremented
_optimized_pattern_matching(value, pats, cache) ==
    IF ~ pattern_optimization
       THEN [result |-> _batch_match_patterns(value, pats).result,
             evals |-> _batch_match_patterns(value, pats).evals,
             cache |-> cache, counted |-> "none"]
    ELSE IF _early_termination_check(value)
       THEN [result |-> << >>, evals |-> 0, cache |-> cache,
             counted |-> "early_terminations"]
    ELSE IF _is_value_cached(cache, _hash_value(value))
       THEN [result |-> _get_cached_result(cache, _hash_value(value)), evals |-> 0,
             cache |-> cache, counted |-> "cache_hits"]
    ELSE LET r == PatternLoop(value, pats, 1)
         IN  [result |-> r.result, evals |-> r.evals,
              cache |-> _cache_value_result(cache, _hash_value(value), r.result),
              counted |-> "cache_misses"]

\* the probe: the list the first lookup of the value returned
RecordFirst(first, value, result) ==
    IF value \in DOMAIN first THEN first
    ELSE [v \in DOMAIN first \cup {value} |-> IF v = value THEN result ELSE first[v]]

\* one call of _optimized_pattern_matching
Lookup ==
    /\ ev_calls < MaxEvalCalls
    /\ \E value \in EvalValues, pats \in PatternLists :
         LET r == _optimized_pattern_matching(value, pats, value_cache)
         IN  /\ value_cache' = r.cache
             /\ ev_last' = [NoCall EXCEPT !.op = "lookup", !.value = value,
                                          !.result = r.result, !.evals = r.evals,
                                          !.counted = r.counted,
                                          !.pats = pats]
             /\ first_result' = RecordFirst(first_result, value, r.result)
    /\ ev_calls' = ev_calls + 1
    /\ UNCHANGED << pattern_optimization, early_termination, value_caching, cfg_show_all,
                    batch_optimization, column_optimization, total_matches_found,
                    compiled_patterns, options_show_all >>
    /\ UNCHANGED << runVars, unitVars, mfVars, batchVars, colVars, ruleVars, poolVars >>

(***************************************************************************)
(* _optimized_batch_processing: the rows of one batch, cell by cell.       *)
(***************************************************************************)
\* the columns of the sample unit and what a cell of each may hold
BatchCols == << << "ID", "NUMBER" >>, << "NOTES", "VARCHAR2" >>, << "MEMO", "CLOB" >> >>
None == << "None" >>
V_seven == << "7" >>
BatchRows == { << V_seven, v, None >> : v \in { V_mail, V_card, None } }
               \cup { << V_seven, V_card, V_card >> }
RowCounts == { 1, 2 }
Batches == UNION { [1..n -> BatchRows] : n \in RowCounts }

\* re.match(pattern, column_name, re.IGNORECASE) for one of skip_patterns,
\* tabulated for the sample column names
SkipNameColumns == { "ID" }
NumericTypes == { "NUMBER", "FLOAT", "DECIMAL", "NUMERIC" }

_should_skip_column(column_name, data_type) ==
    IF ~ column_optimization THEN FALSE
    ELSE IF column_name \in SkipNameColumns THEN TRUE
    ELSE data_type \in NumericTypes

\* the cells of the rows in the order of the loops: row by row, column by column
Cells(rows) ==
    [k \in 1..(Len(rows) * Len(BatchCols)) |->
        LET r == ((k - 1) \div Len(BatchCols)) + 1
            c == ((k - 1) % Len(BatchCols)) + 1
        IN  [row |-> r, column |-> BatchCols[c][1], data_type |-> BatchCols[c][2],
             val |-> rows[r][c]]]

MatchEvent(cell, match) ==
    [column |-> cell.column, value |-> cell.val, rule |-> match.pattern_name]

EventsOf(cell, result) == [i \in 1..Len(result) |-> MatchEvent(cell, result[i])]

Evaluation(cell, result) == [row |-> cell.row, column |-> cell.column,
                             value |-> cell.val, n |-> Len(result)]

\* processed_values.add(str_val)
ProcessedAddNothing(processed, v) == processed
ProcessedAdd(processed, v) == processed \cup {v}

\* the state threaded through the loops
BatchStart(cache) == [cache |-> cache, processed |-> {}, events |-> << >>,
                      evaluated |-> << >>, found |-> 0, column_skips |-> 0]

\* lines 427-443: without batch_optimization every cell that is not None is
\* matched by _batch_match_patterns
RECURSIVE PlainCells(_, _, _, _)
PlainCells(cells, i, pats, st) ==
    IF i > Len(cells) THEN st
    ELSE IF cells[i].val = None THEN PlainCells(cells, i + 1, pats, st)
    ELSE LET result == _batch_match_patterns(cells[i].val, pats).result
         IN  PlainCells(cells, i + 1, pats,
                 [st EXCEPT !.events = @ \o EventsOf(cells[i], result),
                            !.evaluated = Append(@, Evaluation(cells[i], result))])

\* lines 445-475: skipped columns, None and values already processed in this
\* batch are passed over; the others go through _optimized_pattern_matching
RECURSIVE OptimizedCells(_, _, _, _)
OptimizedCells(cells, i, pats, st) ==
    IF i > Len(cells) THEN st
    ELSE IF _should_skip_column(cells[i].column, cells[i].data_type)
            THEN OptimizedCells(cells, i + 1, pats, [st EXCEPT !.column_skips = @ + 1])
    ELSE IF cells[i].val = None THEN OptimizedCells(cells, i + 1, pats, st)
    ELSE IF cells[i].val \in st.processed THEN OptimizedCells(cells, i + 1, pats, st)
    ELSE LET r == _optimized_pattern_matching(cells[i].val, pats, st.cache)
         IN  OptimizedCells(cells, i + 1, pats,
                 [st EXCEPT !.cache = r.cache,
                            !.processed = ProcessedAdd(@, cells[i].val),
                            !.events = @ \o EventsOf(cells[i], r.result),
                            !.evaluated = Append(@, Evaluation(cells[i], r.result)),
                            !.found = @ + Len(r.result)])

_optimized_batch_processing(rows, pats, cache) ==
    IF ~ batch_optimization
       THEN PlainCells(Cells(rows), 1, pats, BatchStart(cache))
       ELSE OptimizedCells(Cells(rows), 1, pats, BatchStart(cache))

\* one batch of the scan: its rows go through the compiled patterns of the scan
ProcessBatch ==
    /\ ev_calls < MaxBatchCalls
    /\ \E rows \in Batches :
         LET st == _optimized_batch_processing(rows, compiled_patterns, value_cache)
         IN  /\ value_cache' = st.cache
             /\ total_matches_found' = total_matches_found + st.found
             /\ ev_last' = [NoCall EXCEPT !.op = "batch", !.pats = compiled_patterns,
                                          !.rows = rows,
                                          !.show_all = options_show_all,
                                          !.events = st.events,
                                          !.column_skips = st.column_skips,
                                          !.evaluated = st.evaluated]
    /\ ev_calls' = ev_calls + 1
    /\ UNCHANGED << pattern_optimization, early_termination, value_caching, cfg_show_all,
                    batch_optimization, column_optimization, first_result,
                    compiled_patterns, options_show_all >>
    /\ UNCHANGED << runVars, unitVars, mfVars, batchVars, colVars, ruleVars, poolVars >>

InitEval ==
    /\ scheme = "oracle"
    /\ retry_attempts = 0
    /\ pattern_valid = TRUE
    /\ AdapterInit
    /\ MFInit
    /\ BatchInit
    /\ ColInit
    /\ RuleInit
    /\ PoolInit
    /\ pattern_optimization \in BOOLEAN
    /\ early_termination \in BOOLEAN
    /\ value_caching \in BOOLEAN
    /\ cfg_show_all \in BOOLEAN
    /\ batch_optimization = TRUE
    /\ column_optimization = TRUE
    /\ compiled_patterns = << >>
    /\ options_show_all = FALSE
    /\ EvalStateInit

NextEval ==
    \/ Lookup

SpecEval == InitEval /\ [][NextEval]_vars

(***************************************************************************)
(* SpecProc: batches of rows processed by an adapter built with any        *)
(* setting of the optimization flags.                                      *)
(***************************************************************************)
InitProc ==
    /\ scheme = "oracle"
    /\ retry_attempts = 0
    /\ pattern_valid = TRUE
    /\ AdapterInit
    /\ MFInit
    /\ BatchInit
    /\ ColInit
    /\ RuleInit
    /\ PoolInit
    /\ pattern_optimization \in BOOLEAN
    /\ early_termination \in BOOLEAN
    /\ value_caching \in BOOLEAN
    /\ cfg_show_all \in BOOLEAN
    /\ batch_optimization \in BOOLEAN
    /\ column_optimization \in BOOLEAN
    /\ compiled_patterns \in PatternLists
    /\ options_show_all \in BOOLEAN
    /\ EvalStateInit

NextProc ==
    \/ ProcessBatch

SpecProc == InitProc /\ [][NextProc]_vars

(***************************************************************************)
(* Column selection: _get_valid_columns, _optimize_column_order and the    *)
(* fetch query of _scan_table_streaming.                                   *)
(***************************************************************************)
\* the columns a unit may have, in the order of all_tab_columns
Catalog == << << "ID", "NUMBER" >>, << "EMAIL", "VARCHAR2" >>, << "BALANCE", "NUMBER" >>,
             << "NOTES", "CLOB" >>, << "CREATED_AT", "DATE" >>,
             << "ACCOUNT_REF", "VARCHAR2" >>, << "USER_ACCOUNT", "VARCHAR2" >>,
             << "CARD_NO", "NUMBER" >> >>

\* the entries of seq from the i-th on that are in kept, in their order
RECURSIVE Filter(_, _, _)
Filter(seq, kept, i) ==
    IF i > Len(seq) THEN << >>
    ELSE (IF seq[i] \in kept THEN << seq[i] >> ELSE << >>) \o Filter(seq, kept, i + 1)

\* the units: every selection of catalog columns
UnitTables ==
    { Filter(Catalog, S, 1) : S \in SUBSET { Catalog[i] : i \in 1..Len(Catalog) } }

\* options.pattern: none, an ad-hoc regex, a credit-card name
NoPattern == ""
OptionPatterns == { NoPattern, "abc", "credit_card", "CreditCard" }
\* options.only_patterns
OptionOnlyPatterns == { << >>, << "email" >>, << "credit_card" >>,
                        << "email", "credit_card" >> }

\* options.pattern.lower() in ['creditcard', 'credit-card', 'credit_card']
IsCreditCardName(pattern) == pattern \in { "credit_card", "CreditCard" }
\* 'credit' in p.lower()
ContainsCredit(p) == p \in { "credit_card" }

\* lines 484-488
is_credit_card_scan(pattern, only_patterns) ==
    IF pattern # NoPattern THEN IsCreditCardName(pattern)
    ELSE IF only_patterns # << >>
            THEN \E i \in 1..Len(only_patterns) : ContainsCredit(only_patterns[i])
    ELSE FALSE

TextualTypes == { "CHAR", "VARCHAR", "VARCHAR2", "CLOB", "NCHAR", "NVARCHAR2", "NCLOB" }

\* the data_type IN (...) list of the metadata query
QueryTypes(credit) ==
    IF credit THEN TextualTypes ELSE TextualTypes \cup NumericTypes

\* the number of high_prob_patterns found in the name by re.search with
\* IGNORECASE, tabulated for the catalog names: EMAIL holds EMAIL and MAIL,
\* CARD_NO holds CARD
HighHits(column_name) ==
    CASE column_name = "EMAIL" -> 2
      [] column_name = "CARD_NO" -> 1
      [] OTHER -> 0

\* the number of medium_prob_patterns found in the name: USER_ACCOUNT holds
\* USER and ACCOUNT, ACCOUNT_REF holds ACCOUNT
MediumHits(column_name) ==
    CASE column_name = "USER_ACCOUNT" -> 2
      [] column_name = "ACCOUNT_REF" -> 1
      [] OTHER -> 0

\* the score of _optimize_column_order: 10 per high-probability keyword and
\* 5 per medium-probability keyword found in the name, plus 3 for four text
\* types
KeywordScore(column_name) ==
    10 * HighHits(column_name) + 5 * MediumHits(column_name)

ColumnScore(col) ==
    KeywordScore(col[1]) + (IF col[2] \in { "VARCHAR2", "VARCHAR", "CHAR", "CLOB" } THEN 3 ELSE 0)

\* insertion into a list sorted by descending score, after the entries with
\* the same score: list.sort(key=score, reverse=True) is stable
RECURSIVE InsertByScore(_, _)
InsertByScore(sorted, col) ==
    IF sorted = << >> THEN << col >>
    ELSE IF ColumnScore(sorted[1]) >= ColumnScore(col)
            THEN << sorted[1] >> \o InsertByScore(Tail(sorted), col)
    ELSE << col >> \o sorted

RECURSIVE SortByScore(_, _)
SortByScore(columns, i) ==
    IF i = 0 THEN << >>
    ELSE InsertByScore(SortByScore(columns, i - 1), columns[i])

KeepColumnOrder(columns) == columns

_optimize_column_order(columns) ==
    IF ~ column_optimization THEN columns
    ELSE SortByScore(columns, Len(columns))

_get_valid_columns(table, pattern, only_patterns) ==
    LET types == QueryTypes(is_credit_card_scan(pattern, only_patterns))
        columns == Filter(table, { c \in { table[i] : i \in 1..Len(table) } : c[2] \in types }, 1)
    IN  IF column_optimization THEN _optimize_column_order(columns) ELSE columns

\* lines 695-711: no query when there are no valid columns, otherwise
\* SELECT col_list FROM table with every valid column
FetchQueryColumns(cols) == [i \in 1..Len(cols) |-> cols[i][1]]

SelectColumns ==
    /\ sel_last = NoSelection
    /\ \E table \in UnitTables, pattern \in OptionPatterns,
          only_patterns \in OptionOnlyPatterns :
         LET cols == _get_valid_columns(table, pattern, only_patterns)
         IN  sel_last' = [op |-> "select", table |-> table, pattern |-> pattern,
                          only_patterns |-> only_patterns, cols |-> cols,
                          fetched |-> FetchQueryColumns(cols)]
    /\ UNCHANGED << runVars, unitVars, mfVars, batchVars, evalVars, ruleVars, poolVars >>

InitColumns ==
    /\ scheme = "oracle"
    /\ retry_attempts = 0
    /\ pattern_valid = TRUE
    /\ AdapterInit
    /\ MFInit
    /\ BatchInit
    /\ RuleInit
    /\ PoolInit
    /\ pattern_optimization = TRUE
    /\ early_termination = TRUE
    /\ value_caching = TRUE
    /\ cfg_show_all = FALSE
    /\ batch_optimization = TRUE
    /\ column_optimization \in BOOLEAN
    /\ compiled_patterns = << >>
    /\ options_show_all = FALSE
    /\ EvalStateInit
    /\ ColInit

NextColumns ==
    \/ SelectColumns

SpecColumns == InitColumns /\ [][NextColumns]_vars

(***************************************************************************)
(* SpecPool: the tasks of all units run concurrently behind the semaphore; *)
(* every backend call of a task (acquire, query, fetchmany, release) is    *)
(* handed to the loop's default executor by run_in_executor(None, ...) and *)
(* the task is suspended until the call has returned.  The executor runs   *)
(* at most ExecutorWorkers calls at a time and takes them oldest first.    *)
(* SessionPool is created without getmode (lines 113-124): on an exhausted *)
(* pool acquire raises at once under cx_Oracle's default NOWAIT and blocks *)
(* its thread until a release under WAIT, the default of python-oracledb,  *)
(* the driver setup.py installs.                                           *)
(***************************************************************************)
ExecutorWorkers == 1
PoolSizes == { 1, 2 }
GetModes == { "NOWAIT", "WAIT" }
FetchedRowCounts == { 2 }

AcquirePositions == { "col_acquire", "str_acquire" }
ReleasePositions == { "col_release", "str_release", "err_release" }
PoolTerminal == { "completed", "refused" }

runIdle == << scheme, retry_attempts, pattern_valid, scanPc, outcome, scans, attempt,
              connect_result, scanErr, pool, open_pools, retry_delay, tables, matches >>

\* run_in_executor(None, call): the call of unit u joins the queue
Submit(u) == equeue' = Append(equeue, u)

\* self._metrics['total_rows_processed'] += rows_count, between two
\* suspension points of the task; the variant above AddRows writes back a
\* sum computed from a counter read before another task's update
AddRowsFromStale(total, rows_count) == rows_count
AddRows(total, rows_count) == total + rows_count

\* async with self._semaphore, then _get_valid_columns asks for a connection
PoolAdmit(u) ==
    /\ ppc[u] = "pending"
    /\ SemaphoreCanAcquire(semaphore)
    /\ semaphore' = semaphore - 1
    /\ ppc' = [ppc EXCEPT ![u] = "col_acquire"]
    /\ Submit(u)
    /\ UNCHANGED << getmode, pool_max, pool_busy, pconn, erunning, pbatch, ptries,
                    total_rows_processed, fetched_rows >>
    /\ UNCHANGED << runIdle, scan_progress, metrics >>
    /\ UNCHANGED << unitVars, mfVars, batchVars, evalVars, colVars, ruleVars >>

\* a thread of the executor takes the oldest call
ExecutorStarts ==
    /\ equeue # << >>
    /\ Cardinality(erunning) < ExecutorWorkers
    /\ erunning' = erunning \cup { Head(equeue) }
    /\ equeue' = Tail(equeue)
    /\ UNCHANGED << getmode, pool_max, pool_busy, ppc, pconn, pbatch, ptries,
                    total_rows_processed, fetched_rows >>
    /\ UNCHANGED << runVars, unitVars, mfVars, batchVars, evalVars, colVars, ruleVars >>

\* _get_connection, line 161: acquire hands a connection over; the task goes
\* on to its query
AcquireReturns(u) ==
    /\ u \in erunning
    /\ ppc[u] \in AcquirePositions
    /\ pool_busy < pool_max
    /\ pool_busy' = pool_busy + 1
    /\ pconn' = [pconn EXCEPT ![u] = @ + 1]
    /\ ppc' = [ppc EXCEPT ![u] = IF @ = "col_acquire" THEN "col_query" ELSE "str_fetch"]
    /\ erunning' = erunning \ {u}
    /\ Submit(u)
    /\ UNCHANGED << getmode, pool_max, pbatch, ptries, total_rows_processed, fetched_rows >>
    /\ UNCHANGED << runVars, unitVars, mfVars, batchVars, evalVars, colVars, ruleVars >>

\* acquire on an exhausted pool under NOWAIT raises; the error is not in the
\* skip list and not retryable, so the handler (lines 771-773) counts a
\* connection error, the generator ends and the task counts the unit as
\* completed (lines 333-336)
AcquireRefused(u) ==
    /\ u \in erunning
    /\ ppc[u] \in AcquirePositions
    /\ pool_busy >= pool_max
    /\ getmode = "NOWAIT"
    /\ erunning' = erunning \ {u}
    /\ ppc' = [ppc EXCEPT ![u] = "refused"]
    /\ metrics' = CompletedMetrics([metrics EXCEPT !.connection_errors = @ + 1])
    /\ scan_progress' = CompletedProgress(scan_progress)
    /\ semaphore' = semaphore + 1
    /\ UNCHANGED << getmode, pool_max, pool_busy, pconn, equeue, pbatch, ptries,
                    total_rows_processed, fetched_rows >>
    /\ UNCHANGED runIdle
    /\ UNCHANGED << unitVars, mfVars, batchVars, evalVars, colVars, ruleVars >>

\* _get_valid_columns, lines 491-525: the metadata query returns and the
\* connection goes back to the pool
QueryReturns(u) ==
    /\ u \in erunning
    /\ ppc[u] = "col_query"
    /\ ppc' = [ppc EXCEPT ![u] = "col_release"]
    /\ erunning' = erunning \ {u}
    /\ Submit(u)
    /\ UNCHANGED << getmode, pool_max, pool_busy, pconn, pbatch, ptries,
                    total_rows_processed, fetched_rows >>
    /\ UNCHANGED << runVars, unitVars, mfVars, batchVars, evalVars, colVars, ruleVars >>

\* the retryable errors raised so far by the fetches of the units 1..u that
\* have not been retried yet or have been
RECURSIVE RetriesSoFar(_)
RetriesSoFar(u) ==
    IF u = 0 THEN 0
    ELSE ptries[u] + (IF ppc[u] \in { "err_release", "retry_sleep" } THEN 1 ELSE 0)
         + RetriesSoFar(u - 1)

\* lines 722-732 and 752-755: fetchmany returns rows, which are counted, or
\* no rows, which ends the loop, or raises a retryable error; the backend
\* raises at most MaxPoolRetries of them in one run
FetchReturns(u) ==
    /\ u \in erunning
    /\ ppc[u] = "str_fetch"
    /\ erunning' = erunning \ {u}
    /\ Submit(u)
    /\ \/ /\ pbatch[u] < MaxBatches
          /\ \E rows_count \in FetchedRowCounts :
               /\ total_rows_processed' = AddRows(total_rows_processed, rows_count)
               /\ fetched_rows' = fetched_rows + rows_count
          /\ pbatch' = [pbatch EXCEPT ![u] = @ + 1]
          /\ UNCHANGED ppc
       \/ /\ ppc' = [ppc EXCEPT ![u] = "str_release"]
          /\ UNCHANGED << pbatch, total_rows_processed, fetched_rows >>
       \/ /\ RetriesSoFar(NumUnits) < MaxPoolRetries
          /\ ppc' = [ppc EXCEPT ![u] = "err_release"]
          /\ UNCHANGED << pbatch, total_rows_processed, fetched_rows >>
    /\ UNCHANGED << getmode, pool_max, pool_busy, pconn, ptries >>
    /\ UNCHANGED << runVars, unitVars, mfVars, batchVars, evalVars, colVars, ruleVars >>

\* _get_connection, lines 163-165: release returns; after column selection
\* the task asks for the streaming connection, after the last batch it
\* counts the unit as completed, after an error it sleeps before the retry
ReleaseReturns(u) ==
    /\ u \in erunning
    /\ ppc[u] \in ReleasePositions
    /\ erunning' = erunning \ {u}
    /\ pool_busy' = pool_busy - 1
    /\ pconn' = [pconn EXCEPT ![u] = @ - 1]
    /\ CASE ppc[u] = "col_release" ->
              /\ ppc' = [ppc EXCEPT ![u] = "str_acquire"]
              /\ Submit(u)
              /\ UNCHANGED << metrics, scan_progress, semaphore >>
         [] ppc[u] = "str_release" ->
              /\ ppc' = [ppc EXCEPT ![u] = "completed"]
              /\ metrics' = CompletedMetrics(metrics)
              /\ scan_progress' = CompletedProgress(scan_progress)
              /\ semaphore' = semaphore + 1
              /\ UNCHANGED equeue
         [] ppc[u] = "err_release" ->
              /\ ppc' = [ppc EXCEPT ![u] = "retry_sleep"]
              /\ UNCHANGED << metrics, scan_progress, semaphore, equeue >>
    /\ UNCHANGED << getmode, pool_max, pbatch, ptries, total_rows_processed, fetched_rows >>
    /\ UNCHANGED runIdle
    /\ UNCHANGED << unitVars, mfVars, batchVars, evalVars, colVars, ruleVars >>

\* lines 765-770: the sleep ends and the unit is scanned again from its
\* column selection
PoolRetryWakes(u) ==
    /\ ppc[u] = "retry_sleep"
    /\ ppc' = [ppc EXCEPT ![u] = "col_acquire"]
    /\ ptries' = [ptries EXCEPT ![u] = @ + 1]
    /\ pbatch' = [pbatch EXCEPT ![u] = 0]
    /\ Submit(u)
    /\ UNCHANGED << getmode, pool_max, pool_busy, pconn, erunning,
                    total_rows_processed, fetched_rows >>
    /\ UNCHANGED << runVars, unitVars, mfVars, batchVars, evalVars, colVars, ruleVars >>

InitPool ==
    /\ scheme = "oracle"
    /\ retry_attempts = 1
    /\ pattern_valid = TRUE
    /\ scanPc = "gather"
    /\ outcome = "none"
    /\ scans = 1
    /\ attempt = 0
    /\ connect_result = "returned"
    /\ scanErr = "none"
    /\ pool = TRUE
    /\ open_pools = 1
    /\ retry_delay = RetryDelayDefault
    /\ tables = Units
    /\ scan_progress = ProgressInit(NumUnits)
    /\ metrics = [tables_completed |-> 0, tables_skipped |-> 0, connection_errors |-> 0]
    /\ matches = [u \in Units |-> 0]
    /\ semaphore = NumUnits
    /\ NoUnitState
    /\ MFInit
    /\ BatchInit
    /\ EvalInit
    /\ ColInit
    /\ RuleInit
    /\ getmode \in GetModes
    /\ pool_max \in PoolSizes
    /\ pool_busy = 0
    /\ ppc = [u \in Units |-> "pending"]
    /\ pconn = [u \in Units |-> 0]
    /\ equeue = << >>
    /\ erunning = {}
    /\ pbatch = [u \in Units |-> 0]
    /\ ptries = [u \in Units |-> 0]
    /\ total_rows_processed = 0
    /\ fetched_rows = 0

NextPool ==
    \/ ExecutorStarts
    \/ \E u \in Units : PoolAdmit(u)
    \/ \E u \in Units : AcquireReturns(u)
    \/ \E u \in Units : AcquireRefused(u)
    \/ \E u \in Units : QueryReturns(u)
    \/ \E u \in Units : FetchReturns(u)
    \/ \E u \in Units : ReleaseReturns(u)
    \/ \E u \in Units : PoolRetryWakes(u)

SpecPool == InitPool /\ [][NextPool]_vars

(***************************************************************************)
(* Properties.                                                             *)
(***************************************************************************)
UnitsInFlight == { u \in Units : upc[u] \in InFlight }

\* C1: at every instant the number of admitted units that have not reached a
\* terminal state is at most max_concurrent_tables, and a unit does column
\* selection or fetches only while it holds one of the semaphore's permits:
\* the permits taken are exactly the units in flight.
C1_BoundedConcurrency ==
    /\ Cardinality(UnitsInFlight) <= max_concurrent_tables
    /\ semaphore = max_concurrent_tables - Cardinality(UnitsInFlight)
    /\ semaphore >= 0

\* a unit fetches while another one waits for the semaphore, all permits taken
C1_Witness ==
    /\ semaphore = 0
    /\ \E u, v \in Units : upc[u] = "streaming" /\ batch[u] > 0 /\ upc[v] = "pending"

\* C2: a unit that has run longer than the per-unit timeout ends as skipped,
\* tables_skipped grows by one for it, and the run goes on.
C2_TimedOutUnitIsSkipped ==
    [][\A u \in Units :
         (overran[u] /\ upc[u] \in InFlight /\ upc'[u] \in Terminal)
           => /\ upc'[u] = "skipped"
              /\ metrics'.tables_skipped = metrics.tables_skipped + 1
              /\ scanPc' = "gather"]_vars

\* C3: a unit is retried at most retry_attempts times.
C3_RetriesWithinBudget == \A u \in Units : retries[u] <= retry_attempts

\* C4: a fatal error raised while a unit is scanned aborts the run: it reaches
\* the handler of scan() and the gather does not go on; it is never handled as
\* a failure of the unit.
C4_FatalErrorAbortsRun ==
    [][\A u \in Units :
         (upc[u] = "handling" /\ IsCritical(raised[u]) /\ upc'[u] # "handling")
           => /\ scanErr' = raised[u]
              /\ scanPc' # "gather"]_vars

\* C5: a unit whose error is neither retryable nor fatal raises
\* connection_errors by one, is counted as skipped and not as completed, and
\* the run goes on.
C5_UnitFailureIsSkipped ==
    [][\A u \in Units :
         (/\ upc[u] = "handling"
          /\ ~ _should_retry(raised[u])
          /\ ~ IsCritical(raised[u])
          /\ upc'[u] # "handling")
           => /\ metrics'.connection_errors = metrics.connection_errors + 1
              /\ upc'[u] = "skipped"
              /\ metrics'.tables_skipped = metrics.tables_skipped + 1
              /\ metrics'.tables_completed = metrics.tables_completed
              /\ scanPc' = "gather"]_vars

\* C6: connect() returns normally only with an established connection, and
\* raises only after exactly retry_attempts attempts.
C6_ConnectWithinBudget ==
    /\ (connect_result = "returned") => (pool \/ scanPc \in {"disconnect", "done"})
    /\ (connect_result = "raised") => (attempt = retry_attempts)

\* C7: an unsupported scheme and a fatal connection error both reach the
\* caller of scan(url, options) as ScanError.
C7_FailureIsScanError ==
    (/\ scanPc = "done"
     /\ \/ scheme \notin SupportedSchemes
        \/ connect_result = "raised" /\ IsCritical(scanErr))
      => outcome = "ScanError"

\* C8: every transition of a unit into a terminal state, completed or skipped,
\* raises the completed counter by exactly one.
C8_TerminalTransitionCounts ==
    [][\A u \in Units :
         (upc[u] \notin Terminal /\ upc'[u] \in Terminal)
           => scan_progress'.completed = scan_progress.completed + 1]_vars

\* C9: the completed counter never exceeds the total, also in a second scan on
\* the same adapter.
C9_CompletedAtMostTotal == scan_progress.completed <= scan_progress.total

\* the second scan has counted every one of its units
C9_Witness ==
    /\ scans = 2
    /\ scan_progress.total = NumUnits
    /\ scan_progress.completed = scan_progress.total

\* The normalized form of a value as the property states it: the words of the
\* value, in lower case, joined by single spaces.
RECURSIVE WordsFrom(_, _)
WordsFrom(s, cur) ==
    IF s = << >> THEN (IF cur = << >> THEN << >> ELSE << cur >>)
    ELSE IF IsSpace(Head(s))
            THEN (IF cur = << >> THEN << >> ELSE << cur >>) \o WordsFrom(Tail(s), << >>)
            ELSE WordsFrom(Tail(s), Append(cur, Head(s)))

RECURSIVE JoinWords(_)
JoinWords(ws) ==
    IF ws = << >> THEN << >>
    ELSE IF Len(ws) = 1 THEN ws[1]
    ELSE ws[1] \o << " " >> \o JoinWords(Tail(ws))

NormalForm(v) == JoinWords(WordsFrom(LowerAll(v), << >>))

IsPrefix(s, t) == Len(s) <= Len(t) /\ SubSeq(t, 1, Len(s)) = s

\* C10: in every Match no two entries of values have the same normalized
\* form, and a call of _add_match keeps every Match, keeps the entries it
\* already has in their order, and appends at most one value, at the end.
C10_ValuesDistinctUpToNormalForm ==
    /\ [](\A k \in DOMAIN mf_matches :
            \A i, j \in 1..Len(mf_matches[k].values) :
               (i # j) => NormalForm(mf_matches[k].values[i])
                            # NormalForm(mf_matches[k].values[j]))
    /\ [][\A k \in DOMAIN mf_matches :
            /\ k \in DOMAIN mf_matches'
            /\ IsPrefix(mf_matches[k].values, mf_matches'[k].values)
            /\ Len(mf_matches'[k].values) <= Len(mf_matches[k].values) + 1]_vars

\* a Match holds two values and a further hit on it was a duplicate
C10_Witness ==
    \E k \in DOMAIN mf_matches :
       /\ DOMAIN mf_matches = {k}
       /\ Len(mf_matches[k].values) >= 2
       /\ mf_calls > Len(mf_matches[k].values)

\* C11: the size handed to every fetchmany of a unit is at least
\* min_batch_size and at most max_batch_size.
C11_BatchSizeWithinLimits ==
    (fetched_with # 0)
      => (min_batch_size <= fetched_with /\ fetched_with <= max_batch_size)

\* C12: with value caching enabled, a lookup of a value whose hash was looked
\* up before returns the list of the first lookup, runs no regex search and
\* leaves the cache as it is.
C12_RepeatedLookupIdempotent ==
    [][(/\ ev_calls' = ev_calls + 1
        /\ ev_last'.op = "lookup"
        /\ value_caching
        /\ _hash_value(ev_last'.value) \in DOMAIN value_cache)
         => /\ ev_last'.value \in DOMAIN first_result
            /\ ev_last'.result = first_result[ev_last'.value]
            /\ ev_last'.evals = 0
            /\ value_cache' = value_cache]_vars

\* a second lookup of a value, answered with the match of the first one
\* without a regex search
C12_Witness ==
    /\ value_caching
    /\ ev_calls >= 2
    /\ ev_last.op = "lookup"
    /\ _hash_value(ev_last.value) \in DOMAIN value_cache
    /\ ev_last.evals = 0
    /\ ev_last.result # << >>
    /\ ev_last.result = first_result[ev_last.value]

\* the value is shorter than 10 characters and has no "@", no "." and no digit
ShortPlain(value) ==
    /\ Len(value) < 10
    /\ ~ HasChar(value, "@")
    /\ ~ HasChar(value, ".")
    /\ ~ HasDigit(value)

\* the early-rejection check runs on the values of a lookup
UnderEarlyRejection == early_termination /\ pattern_optimization

\* C13 as stated: under early rejection a value shorter than 10 characters
\* without "@", "." and digit produces no match, whatever the patterns are.
C13_ShortPlainValueNoMatch ==
    (/\ ev_last.op = "lookup"
     /\ UnderEarlyRejection
     /\ ShortPlain(ev_last.value))
      => ev_last.result = << >>

\* C13 amended: under early rejection such a value produces no match unless
\* it is SSN-shaped, that is, has a "-" and is 9 characters long.
C13_ShortPlainUnshapedNoMatch ==
    (/\ ev_last.op = "lookup"
     /\ UnderEarlyRejection
     /\ ShortPlain(ev_last.value)
     /\ ~ (HasChar(ev_last.value, "-") /\ Len(ev_last.value) = 9))
      => ev_last.result = << >>

\* a short plain value that the ad-hoc pattern would match was looked up
C13_Witness ==
    /\ ev_last.op = "lookup"
    /\ UnderEarlyRejection
    /\ ev_last.value = V_word
    /\ "custom" \in { ev_last.pats[i] : i \in 1..Len(ev_last.pats) }
    /\ RegexSearch("custom", ev_last.value)
    /\ ev_last.result = << >>

\* the rules of pats whose regular expression finds something in the value
MatchingRules(pats, value) == { pats[i] : i \in { j \in 1..Len(pats) : RegexSearch(pats[j], value) } }

EventsWith(events, value) == { i \in 1..Len(events) : events[i].value = value }

\* C16: with batch_optimization a value that occurs in several rows of a
\* batch is evaluated once, at its first occurrence, and the batch yields
\* for it, and adds to total_matches_found, one match per rule of that one
\* evaluation.
C16_BatchDeduplicatesValues ==
    [][(ev_calls' = ev_calls + 1 /\ ev_last'.op = "batch" /\ batch_optimization)
         => /\ \A i, j \in 1..Len(ev_last'.evaluated) :
                  (i # j) => ev_last'.evaluated[i].value # ev_last'.evaluated[j].value
            /\ \A i \in 1..Len(ev_last'.evaluated) :
                  LET v == ev_last'.evaluated[i].value
                  IN  /\ Cardinality(EventsWith(ev_last'.events, v)) = ev_last'.evaluated[i].n
                      /\ \A k, l \in EventsWith(ev_last'.events, v) :
                            (k # l) => ev_last'.events[k].rule # ev_last'.events[l].rule
            /\ total_matches_found' = total_matches_found + Len(ev_last'.events)]_vars

\* a batch whose two rows hold the same card number yielded one match
C16_Witness ==
    /\ ev_last.op = "batch"
    /\ batch_optimization
    /\ Len(ev_last.rows) = 2
    /\ ev_last.rows[1][2] = V_card
    /\ ev_last.rows[2][2] = V_card
    /\ Len(ev_last.evaluated) = 1
    /\ ev_last.evaluated[1].value = V_card
    /\ ev_last.evaluated[1].row = 1
    /\ Len(ev_last.events) = 1
    /\ total_matches_found >= 1

\* C17: when show_all is requested neither by the call nor by the
\* configuration, every evaluated value yields at most one match event.
C17_FirstMatchOnly ==
    (ev_last.op = "batch" /\ ~ ev_last.show_all /\ ~ cfg_show_all)
      => \A i \in 1..Len(ev_last.evaluated) : ev_last.evaluated[i].n <= 1

\* C18: when the call requests show_all, a value that matches k rules of
\* the active pattern set yields k match events.
C18_ShowAllYieldsEveryRule ==
    (ev_last.op = "batch" /\ ev_last.show_all)
      => \A i \in 1..Len(ev_last.evaluated) :
            ev_last.evaluated[i].n
              = Cardinality(MatchingRules(ev_last.pats, ev_last.evaluated[i].value))

\* the type a column of the unit was declared with
TypeOf(table, column_name) ==
    (CHOOSE c \in { table[i] : i \in 1..Len(table) } : c[1] = column_name)[2]

FetchedColumns == { sel_last.fetched[i] : i \in 1..Len(sel_last.fetched) }

\* C14: when the active pattern set is {email}, no column with a numeric
\* type and no column with an identifier-like name is part of the unit's
\* fetch query.
C14_NumericColumnsNotFetched ==
    (/\ sel_last.op = "select"
     /\ sel_last.pattern = NoPattern
     /\ sel_last.only_patterns = << "email" >>)
      => \A c \in FetchedColumns :
            /\ TypeOf(sel_last.table, c) \notin NumericTypes
            /\ c \notin SkipNameColumns

\* C15: whenever only_patterns contains credit_card, every column of the
\* fetch query has a textual type, whatever options.pattern is.
C15_CreditCardScanTextualOnly ==
    (/\ sel_last.op = "select"
     /\ \E i \in 1..Len(sel_last.only_patterns) : sel_last.only_patterns[i] = "credit_card")
      => \A c \in FetchedColumns : TypeOf(sel_last.table, c) \in TextualTypes

\* the regex texts re.compile rejects
InvalidPatterns == { P_open, P_close }

\* C19: registering a custom pattern whose regex is invalid raises an error
\* and leaves the custom patterns and the collected matches as they were;
\* no invalid pattern is ever among the custom patterns check_line uses.
C19_InvalidPatternChangesNothing ==
    [][/\ \A n \in DOMAIN custom_patterns' : custom_patterns'[n] \notin InvalidPatterns
       /\ (/\ rule_calls' = rule_calls + 1
           /\ rule_last'.op = "add_custom_pattern"
           /\ rule_last'.pattern \in InvalidPatterns)
            => /\ rule_last'.outcome = "ValueError"
               /\ custom_patterns' = custom_patterns
               /\ mf_matches' = mf_matches]_vars

\* an invalid pattern was refused while a custom pattern and matches existed
C19_Witness ==
    /\ rule_last.op = "add_custom_pattern"
    /\ rule_last.pattern \in InvalidPatterns
    /\ rule_last.outcome = "ValueError"
    /\ DOMAIN custom_patterns # {}
    /\ DOMAIN mf_matches # {}

\* the token stands in the line as a word of its own
WholeWord(token, line) ==
    Contains(<< " " >> \o LowerAll(token) \o << " " >>, << " " >> \o LowerAll(line) \o << " " >>)

\* the validator of the token's family holds for the line
FamilyValidatorHolds(token, line) ==
    /\ Contains(LowerAll(token), LowerAll(line))
    /\ \/ /\ LowerAll(token) \in ConnectionTokens
          /\ \/ Contains(<< ":", "/", "/" >>, LowerAll(line))
             \/ Contains(<< "j", "d", "b", "c", ":" >>, LowerAll(line))
       \/ /\ LowerAll(token) \in PathTokens
          /\ \/ Contains(<< "/" >>, LowerAll(line))
             \/ Contains(<< "\\" >>, LowerAll(line))

\* C20: check_line reports a token-list rule only if one of its tokens
\* stands in the line as a whole word or the validator of its family holds.
C20_TokenRuleNeedsWordOrValidator ==
    (rule_last.op = "check_line")
      => \A r \in 1..Len(token_rules) :
            (token_rules[r].name \in rule_last.reported)
              => \E t \in 1..Len(token_rules[r].tokens) :
                    \/ WholeWord(token_rules[r].tokens[t], rule_last.line)
                    \/ FamilyValidatorHolds(token_rules[r].tokens[t], rule_last.line)

\* C28: the adapter has at most one open session pool at any time, and
\* no pool is left open once scan() has returned or aborted.
C28_AtMostOnePoolAndNoneLeft ==
    /\ open_pools <= 1
    /\ (scanPc = "done") => (open_pools = 0)

\* C27: when a scan on a fresh adapter has returned, every enumerated unit
\* is counted exactly once: tables_completed counts the units that ended as
\* completed, tables_skipped those that ended as skipped, and together they
\* are the enumerated units.
C27_EveryUnitAccountedOnce ==
    (scanPc = "done" /\ outcome = "returned")
      => /\ metrics.tables_completed + metrics.tables_skipped = Cardinality(tables)
         /\ metrics.tables_completed = Cardinality({ u \in tables : upc[u] = "completed" })
         /\ metrics.tables_skipped = Cardinality({ u \in tables : upc[u] = "skipped" })

\* a scan of two units has returned, both units skipped
C27_Witness ==
    /\ scanPc = "done"
    /\ outcome = "returned"
    /\ Cardinality(tables) = 2
    /\ metrics.tables_skipped = 2

\* C22: no error raised in a unit is both fatal and retryable, and the
\* handler answers every retryable error with a retry of the unit, never
\* with the end of the unit.
C22_SeveritiesExclusiveAndRetried ==
    [][\A u \in Units :
         /\ (raised'[u] # "none") => ~ (IsCritical(raised'[u]) /\ _should_retry(raised'[u]))
         /\ (upc[u] = "handling" /\ upc'[u] # "handling" /\ _should_retry(raised[u]))
              => upc'[u] = "retry_sleep"]_vars

\* C26: the match stream of the first unit holds the match of a batch at
\* most once, also when the unit was retried.
C26_NoMatchYieldedTwice ==
    \A b \in 1..MaxBatches : uevents[b] <= 1

\* C23 as stated: the size is compared with the 0.5 s target itself; after
\* every fifth batch a batch slower than the target shrinks the size to
\* max(min_batch_size, int(0.8 * size)), a faster one grows it to
\* min(max_batch_size, int(1.2 * size)), and after any other batch the size
\* is unchanged.
C23_StepAgainstTarget ==
    [][(batch_count' = batch_count + 1 /\ adaptive_batch)
         => IF batch_count' % 5 = 0
               THEN /\ (batch_time_seen' > TargetTime)
                         => current_batch_size' =
                              Max(min_batch_size, (current_batch_size * 8) \div 10)
                    /\ (batch_time_seen' < TargetTime)
                         => current_batch_size' =
                              Min(max_batch_size, (current_batch_size * 12) \div 10)
                    /\ (batch_time_seen' = TargetTime)
                         => current_batch_size' = current_batch_size
               ELSE current_batch_size' = current_batch_size]_vars

\* C23 amended: after every fifth batch a batch slower than 1.5 times the
\* target (0.75 s) shrinks the size to max(min_batch_size, int(0.8 * size)),
\* one faster than half the target (0.25 s) grows it to
\* min(max_batch_size, int(1.2 * size)), any duration in between leaves it
\* unchanged; after any other batch the size is unchanged.
C23_StepAgainstBand ==
    [][(batch_count' = batch_count + 1 /\ adaptive_batch)
         => IF batch_count' % 5 = 0
               THEN /\ (batch_time_seen' * 2 > TargetTime * 3)
                         => current_batch_size' =
                              Max(min_batch_size, (current_batch_size * 8) \div 10)
                    /\ (batch_time_seen' * 2 < TargetTime)
                         => current_batch_size' =
                              Min(max_batch_size, (current_batch_size * 12) \div 10)
                    /\ (batch_time_seen' * 2 <= TargetTime * 3
                          /\ batch_time_seen' * 2 >= TargetTime)
                         => current_batch_size' = current_batch_size
               ELSE current_batch_size' = current_batch_size]_vars

\* the tenth batch was slow and the size is below the configured one, which
\* lies within the limits
C23_Witness ==
    /\ adaptive_batch
    /\ batch_count = 10
    /\ batch_time_seen = 900
    /\ min_batch_size <= fetch_size
    /\ fetch_size <= max_batch_size
    /\ current_batch_size < fetch_size

\* the tier of a column: 3 with a high-value keyword in the name, 2 with
\* medium-value terms only, 1 with the textual bonus only, 0 otherwise
Tier(col) ==
    IF HighHits(col[1]) > 0 THEN 3
    ELSE IF MediumHits(col[1]) > 0 THEN 2
    ELSE IF col[2] \in { "VARCHAR2", "VARCHAR", "CHAR", "CLOB" } THEN 1
    ELSE 0

\* C24 as stated: with column optimization, every selected column with a
\* high-value keyword comes before every selected column with medium-value
\* terms only, and those before every column with the textual bonus only.
C24_TiersOrdered ==
    (sel_last.op = "select" /\ column_optimization)
      => \A i, j \in 1..Len(sel_last.cols) :
            (/\ Tier(sel_last.cols[j]) >= 1
             /\ Tier(sel_last.cols[i]) > Tier(sel_last.cols[j])) => i < j

\* C24 amended: the same, where the columns with medium-value terms only
\* that are compared with high-keyword columns hold exactly one such term.
C24_TiersOrderedSingleMedium ==
    (sel_last.op = "select" /\ column_optimization)
      => \A i, j \in 1..Len(sel_last.cols) :
            (/\ Tier(sel_last.cols[j]) >= 1
             /\ Tier(sel_last.cols[i]) > Tier(sel_last.cols[j])
             /\ (Tier(sel_last.cols[i]) = 3 /\ Tier(sel_last.cols[j]) = 2)
                   => MediumHits(sel_last.cols[j][1]) = 1) => i < j

\* a table lists a text column, a one-term medium column and a numeric
\* high-keyword column in that order, and the selection reverses them
C24_Witness ==
    /\ column_optimization
    /\ sel_last.op = "select"
    /\ sel_last.table = << << "NOTES", "CLOB" >>, << "ACCOUNT_REF", "VARCHAR2" >>,
                           << "CARD_NO", "NUMBER" >> >>
    /\ sel_last.cols = << << "CARD_NO", "NUMBER" >>, << "ACCOUNT_REF", "VARCHAR2" >>,
                          << "NOTES", "CLOB" >> >>

\* the cells of the batch that are not None and whose column is not skipped
ScannedCells(rows) ==
    { k \in 1..Len(Cells(rows)) :
        /\ Cells(rows)[k].val # None
        /\ ~ (batch_optimization
              /\ _should_skip_column(Cells(rows)[k].column, Cells(rows)[k].data_type)) }

\* C21: the value of every cell of a batch that is not None and whose column
\* is not skipped is evaluated at that column, and a value that matches a
\* rule yields a match event at every column it occurs in.
C21_EveryCellEvaluated ==
    (ev_last.op = "batch")
      => \A k \in ScannedCells(ev_last.rows) :
            LET cell == Cells(ev_last.rows)[k]
            IN  /\ \E i \in 1..Len(ev_last.evaluated) :
                      /\ ev_last.evaluated[i].value = cell.val
                      /\ ev_last.evaluated[i].column = cell.column
                /\ (\E e \in 1..Len(ev_last.events) : ev_last.events[e].value = cell.val)
                      => \E e \in 1..Len(ev_last.events) :
                            /\ ev_last.events[e].value = cell.val
                            /\ ev_last.events[e].column = cell.column

\* C30: a lookup answered from the value cache returns the list that the
\* pattern loop over the pattern list of this lookup returns for the value.
C30_CacheHitIsFresh ==
    (ev_last.op = "lookup" /\ ev_last.counted = "cache_hits")
      => ev_last.result = PatternLoop(ev_last.value, ev_last.pats, 1).result

PoolHoldsAtMostOne ==
    \A u \in Units :
        /\ pconn[u] <= 1
        /\ (ppc[u] \in { "pending", "retry_sleep" } \cup PoolTerminal) => pconn[u] = 0

\* C29: a unit holds at most one pooled connection and none while it sleeps
\* or after it has ended, every request for a connection ends with a
\* connection, and while a task has not ended some step can be taken.
C29_NoPoolDeadlock ==
    /\ PoolHoldsAtMostOne
    /\ \A u \in Units : ppc[u] # "refused"
    /\ (\E u \in Units : ppc[u] \notin PoolTerminal) => ENABLED NextPool

====
